---- MODULE Spec2Model ----
(***************************************************************************)
(* Model of the Kagi MCP server (src/src/index.ts): the ListTools and      *)
(* CallTool request handlers, the provider (KagiClient) boundary, the      *)
(* diagnostic channel (console.error) and the JSON text of the envelopes.  *)
(***************************************************************************)
EXTENDS Integers, Sequences, FiniteSets

(***************************************************************************)
(* JavaScript values of the caller-supplied arguments.  Every value has    *)
(* the same record shape; t is the typeof tag ("nan" is the number NaN).   *)
(***************************************************************************)
Undefined == [t |-> "undefined", b |-> FALSE, n |-> 0, s |-> ""]
Null      == [t |-> "null",      b |-> FALSE, n |-> 0, s |-> ""]
NaN       == [t |-> "nan",       b |-> FALSE, n |-> 0, s |-> ""]
Bool(x)   == [t |-> "boolean",   b |-> x,     n |-> 0, s |-> ""]
Num(x)    == [t |-> "number",    b |-> FALSE, n |-> x, s |-> ""]
Str(x)    == [t |-> "string",    b |-> FALSE, n |-> 0, s |-> x]

\* JavaScript truthiness (the tests `!query`, `url && text`, `x ? .. : ..`, `a || b`).
Truthy(v) ==
    CASE v.t = "undefined" -> FALSE
      [] v.t = "null"      -> FALSE
      [] v.t = "nan"       -> FALSE
      [] v.t = "boolean"   -> v.b
      [] v.t = "number"    -> v.n # 0
      [] v.t = "string"    -> v.s # ""

\* Boolean(v)
Boolean(v) == Truthy(v)

\* a || b
Or(a, b) == IF Truthy(a) THEN a ELSE b

Digit(d) ==
    CASE d = 0 -> "0" [] d = 1 -> "1" [] d = 2 -> "2" [] d = 3 -> "3" [] d = 4 -> "4"
      [] d = 5 -> "5" [] d = 6 -> "6" [] d = 7 -> "7" [] d = 8 -> "8" [] d = 9 -> "9"

RECURSIVE NatToString(_)
NatToString(n) == IF n < 10 THEN Digit(n) ELSE NatToString(n \div 10) \o Digit(n % 10)

IntToString(n) == IF n < 0 THEN "-" \o NatToString(0 - n) ELSE NatToString(n)

\* String(v)
String(v) ==
    CASE v.t = "undefined" -> "undefined"
      [] v.t = "null"      -> "null"
      [] v.t = "nan"       -> "NaN"
      [] v.t = "boolean"   -> IF v.b THEN "true" ELSE "false"
      [] v.t = "number"    -> IntToString(v.n)
      [] v.t = "string"    -> v.s

\* The integers whose decimal text Number() is asked to read back in this model.
NumericRange == -99 .. 99

\* The decimal text of each of them.
DecimalText == [n \in NumericRange |-> IntToString(n)]

\* Number(v): the empty string reads as 0, a decimal integer text as that
\* integer, any other text as NaN.
Number(v) ==
    CASE v.t = "undefined" -> NaN
      [] v.t = "null"      -> Num(0)
      [] v.t = "nan"       -> NaN
      [] v.t = "boolean"   -> IF v.b THEN Num(1) ELSE Num(0)
      [] v.t = "number"    -> v
      [] v.t = "string"    ->
           IF v.s = "" THEN Num(0)
           ELSE IF \E n \in NumericRange : DecimalText[n] = v.s
                THEN Num(CHOOSE n \in NumericRange : DecimalText[n] = v.s)
                ELSE NaN

\* Math.min(a, b) on numbers: NaN if either is NaN.
MathMin(a, b) ==
    IF a.t = "nan" \/ b.t = "nan" THEN NaN
    ELSE IF a.n <= b.n THEN a ELSE b

(***************************************************************************)
(* JSON values (provider responses, the health payload) and JSON text.     *)
(* A text is a sequence of characters; a string value is the sequence of   *)
(* its characters.  An object is its ordered keys k and their values a.    *)
(***************************************************************************)
JNull        == [t |-> "null", b |-> FALSE, n |-> 0, s |-> <<>>, k |-> <<>>, a |-> <<>>]
JBool(x)     == [t |-> "bool", b |-> x,     n |-> 0, s |-> <<>>, k |-> <<>>, a |-> <<>>]
JNum(x)      == [t |-> "num",  b |-> FALSE, n |-> x, s |-> <<>>, k |-> <<>>, a |-> <<>>]
JStr(x)      == [t |-> "str",  b |-> FALSE, n |-> 0, s |-> x,    k |-> <<>>, a |-> <<>>]
JArr(xs)     == [t |-> "arr",  b |-> FALSE, n |-> 0, s |-> <<>>, k |-> <<>>, a |-> xs]
JObj(ks, xs) == [t |-> "obj",  b |-> FALSE, n |-> 0, s |-> <<>>, k |-> ks,   a |-> xs]

\* The `space` argument of JSON.stringify(value, null, 2).
IndentWidth == 2

RECURSIVE Spaces(_)
Spaces(n) == IF n <= 0 THEN <<>> ELSE <<" ">> \o Spaces(n - 1)

DigitChar(d) == <<Digit(d)>>

RECURSIVE NatToChars(_)
NatToChars(n) == IF n < 10 THEN DigitChar(n) ELSE NatToChars(n \div 10) \o DigitChar(n % 10)

NumToChars(n) == IF n < 0 THEN <<"-">> \o NatToChars(0 - n) ELSE NatToChars(n)

\* Mutant of EscapeChar: the quote is escaped, the backslash is not.
EscapeCharQuoteOnly(c) ==
    CASE c = "\"" -> <<"\\", "\"">>
      [] c = "\n" -> <<"\\", "n">>
      [] OTHER    -> <<c>>

\* JSON.stringify's escape of one character of a string.
EscapeChar(c) ==
    CASE c = "\"" -> <<"\\", "\"">>
      [] c = "\\" -> <<"\\", "\\">>
      [] c = "\n" -> <<"\\", "n">>
      [] OTHER    -> <<c>>

RECURSIVE EscapeChars(_)
EscapeChars(cs) == IF cs = <<>> THEN <<>> ELSE EscapeChar(Head(cs)) \o EscapeChars(Tail(cs))

\* JSON.stringify of a string: QuoteJSONString.
Quote(cs) == <<"\"">> \o EscapeChars(cs) \o <<"\"">>

RECURSIVE Serialize(_, _)
RECURSIVE SerializeItems(_, _, _)

\* The members of a non-empty array or object from index i on, each on its own
\* line at indentation ind, separated by ",\n".
SerializeItems(v, i, ind) ==
    LET item == Spaces(ind)
                \o (IF v.t = "obj" THEN Quote(v.k[i]) \o <<":", " ">> ELSE <<>>)
                \o Serialize(v.a[i], ind)
    IN  IF i = Len(v.a) THEN item
        ELSE item \o <<",", "\n">> \o SerializeItems(v, i + 1, ind)

\* JSON.stringify(v, null, 2) of a value nested at indentation ind.
Serialize(v, ind) ==
    CASE v.t = "null" -> <<"n", "u", "l", "l">>
      [] v.t = "bool" -> IF v.b THEN <<"t", "r", "u", "e">> ELSE <<"f", "a", "l", "s", "e">>
      [] v.t = "num"  -> NumToChars(v.n)
      [] v.t = "str"  -> Quote(v.s)
      [] v.t = "arr"  ->
           IF v.a = <<>> THEN <<"[", "]">>
           ELSE <<"[", "\n">> \o SerializeItems(v, 1, ind + IndentWidth)
                \o <<"\n">> \o Spaces(ind) \o <<"]">>
      [] v.t = "obj"  ->
           IF v.a = <<>> THEN <<"{", "}">>
           ELSE <<"{", "\n">> \o SerializeItems(v, 1, ind + IndentWidth)
                \o <<"\n">> \o Spaces(ind) \o <<"}">>

\* JSON.stringify(value, null, 2)
Stringify(v) == Serialize(v, 0)

(***************************************************************************)
(* JSON.parse: a recursive-descent reader of a text.  Every reader returns *)
(* [ok, v, p]: whether it succeeded, the value read, and the position      *)
(* after it.                                                               *)
(***************************************************************************)
Fail == [ok |-> FALSE, v |-> JNull, p |-> 0]

CharAt(txt, p) == IF p >= 1 /\ p <= Len(txt) THEN txt[p] ELSE "EOF"

IsWhitespace(c) == c \in {" ", "\n", "\t", "\r"}

IsDigit(c) == c \in {"0", "1", "2", "3", "4", "5", "6", "7", "8", "9"}

DigitValue(c) == CHOOSE d \in 0 .. 9 : Digit(d) = c

RECURSIVE SkipWhitespace(_, _)
SkipWhitespace(txt, p) ==
    IF IsWhitespace(CharAt(txt, p)) THEN SkipWhitespace(txt, p + 1) ELSE p

\* The literals null, true, false.
ParseLiteral(txt, p, lit, val) ==
    IF p + Len(lit) - 1 <= Len(txt) /\ SubSeq(txt, p, p + Len(lit) - 1) = lit
    THEN [ok |-> TRUE, v |-> val, p |-> p + Len(lit)]
    ELSE Fail

RECURSIVE ParseDigits(_, _, _)
ParseDigits(txt, p, acc) ==
    IF IsDigit(CharAt(txt, p))
    THEN ParseDigits(txt, p + 1, acc * 10 + DigitValue(txt[p]))
    ELSE [ok |-> TRUE, v |-> JNum(acc), p |-> p]

\* An integer: an optional minus sign and at least one digit, with no
\* leading zero before another digit.
ParseNumber(txt, p) ==
    LET neg == CharAt(txt, p) = "-"
        q   == IF neg THEN p + 1 ELSE p
        r   == ParseDigits(txt, q, 0)
    IN  IF ~IsDigit(CharAt(txt, q)) THEN Fail
        ELSE IF CharAt(txt, q) = "0" /\ IsDigit(CharAt(txt, q + 1)) THEN Fail
        ELSE IF neg THEN [r EXCEPT !.v = JNum(0 - r.v.n)] ELSE r

\* The characters of a string after its opening quote, up to the closing one.
RECURSIVE ParseChars(_, _, _)
ParseChars(txt, p, acc) ==
    LET c == CharAt(txt, p)
        e == CharAt(txt, p + 1)
    IN  CASE c = "EOF" -> Fail
          [] c = "\n"  -> Fail
          [] c = "\""  -> [ok |-> TRUE, v |-> JStr(acc), p |-> p + 1]
          [] c = "\\"  ->
               CASE e = "\"" -> ParseChars(txt, p + 2, Append(acc, "\""))
                 [] e = "\\" -> ParseChars(txt, p + 2, Append(acc, "\\"))
                 [] e = "n"  -> ParseChars(txt, p + 2, Append(acc, "\n"))
                 [] OTHER    -> Fail
          [] OTHER     -> ParseChars(txt, p + 1, Append(acc, c))

ParseString(txt, p) ==
    IF CharAt(txt, p) = "\"" THEN ParseChars(txt, p + 1, <<>>) ELSE Fail

RECURSIVE ParseValue(_, _)
RECURSIVE ParseElements(_, _, _)
RECURSIVE ParseMembers(_, _, _, _)

\* The elements of a non-empty array, p at the start of the next element.
ParseElements(txt, p, acc) ==
    LET e == ParseValue(txt, p)
        q == SkipWhitespace(txt, e.p)
        c == CharAt(txt, q)
    IN  IF ~e.ok THEN Fail
        ELSE CASE c = "," -> ParseElements(txt, q + 1, Append(acc, e.v))
               [] c = "]" -> [ok |-> TRUE, v |-> JArr(Append(acc, e.v)), p |-> q + 1]
               [] OTHER   -> Fail

\* The members of a non-empty object, p at the start of the next key.
ParseMembers(txt, p, ks, acc) ==
    LET kp  == SkipWhitespace(txt, p)
        key == ParseString(txt, kp)
        cp  == SkipWhitespace(txt, key.p)
        e   == ParseValue(txt, cp + 1)
        q   == SkipWhitespace(txt, e.p)
        c   == CharAt(txt, q)
    IN  IF ~key.ok THEN Fail
        ELSE IF CharAt(txt, cp) # ":" THEN Fail
        ELSE IF ~e.ok THEN Fail
        ELSE CASE c = "," -> ParseMembers(txt, q + 1, Append(ks, key.v.s), Append(acc, e.v))
               [] c = "}" -> [ok |-> TRUE,
                              v  |-> JObj(Append(ks, key.v.s), Append(acc, e.v)),
                              p  |-> q + 1]
               [] OTHER   -> Fail

\* One JSON value, after leading whitespace.
ParseValue(txt, p) ==
    LET q == SkipWhitespace(txt, p)
        c == CharAt(txt, q)
    IN  CASE c = "n"  -> ParseLiteral(txt, q, <<"n", "u", "l", "l">>, JNull)
          [] c = "t"  -> ParseLiteral(txt, q, <<"t", "r", "u", "e">>, JBool(TRUE))
          [] c = "f"  -> ParseLiteral(txt, q, <<"f", "a", "l", "s", "e">>, JBool(FALSE))
          [] c = "\"" -> ParseString(txt, q)
          [] c = "["  ->
               IF CharAt(txt, SkipWhitespace(txt, q + 1)) = "]"
               THEN [ok |-> TRUE, v |-> JArr(<<>>), p |-> SkipWhitespace(txt, q + 1) + 1]
               ELSE ParseElements(txt, q + 1, <<>>)
          [] c = "{"  ->
               IF CharAt(txt, SkipWhitespace(txt, q + 1)) = "}"
               THEN [ok |-> TRUE, v |-> JObj(<<>>, <<>>), p |-> SkipWhitespace(txt, q + 1) + 1]
               ELSE ParseMembers(txt, q + 1, <<>>, <<>>)
          [] c = "-" \/ IsDigit(c) -> ParseNumber(txt, q)
          [] OTHER    -> Fail

\* JSON.parse(text): one value and nothing but whitespace after it.
\* A text that is not JSON makes JSON.parse throw: ok is FALSE.
Parse(txt) ==
    LET r == ParseValue(txt, 1)
    IN  IF r.ok /\ SkipWhitespace(txt, r.p) = Len(txt) + 1
        THEN [ok |-> TRUE, v |-> r.v]
        ELSE [ok |-> FALSE, v |-> JNull]

(***************************************************************************)
(* The server: requests, the tool catalog, the provider boundary.          *)
(***************************************************************************)

\* Upper bound of `limit` in Math.min(Number(limit || 5), 10).
MaxLimit == 10

\* Default of `limit` in Math.min(Number(limit || 5), 10).
DefaultLimit == 5

\* Number of callTool invocations a behaviour starts.
MaxInvocations == 2

Ids == 1 .. MaxInvocations

\* One entry of `properties` in an inputSchema.  enum is <<>>, and default,
\* minimum and maximum are Undefined, where the schema does not declare them.
Property(name, type, description, enum, default, minimum, maximum) ==
    [name |-> name, type |-> type, description |-> description, enum |-> enum,
     default |-> default, minimum |-> minimum, maximum |-> maximum]

\* A tool descriptor.  required and oneOf are <<>> where the schema declares
\* none (kagi_summarize has no `required`, health_check an empty one).
Tool(name, description, properties, required, oneOf) ==
    [name |-> name, description |-> description,
     inputSchema |-> [type |-> "object", properties |-> properties,
                      required |-> required, oneOf |-> oneOf]]

\* The `tools` array the ListTools handler returns.
Tools ==
    <<Tool("kagi_search", "Perform a search using the Kagi search engine",
           <<Property("query", "string", "Search query", <<>>,
                      Undefined, Undefined, Undefined),
             Property("limit", "number", "Number of results to return (max 10)", <<>>,
                      Undefined, Num(1), Num(10))>>,
           <<"query">>, <<>>),
      Tool("kagi_summarize",
           "Summarize web pages or text content using Kagi's summarization engine",
           <<Property("url", "string", "URL of the web page to summarize", <<>>,
                      Undefined, Undefined, Undefined),
             Property("text", "string", "Text content to summarize (alternative to URL)",
                      <<>>, Undefined, Undefined, Undefined),
             Property("engine", "string", "Summarization engine to use",
                      <<"cecil", "agnes", "daphne", "muriel">>,
                      Str("cecil"), Undefined, Undefined),
             Property("summary_type", "string", "Type of summary to generate",
                      <<"summary", "takeaway">>, Str("summary"), Undefined, Undefined),
             Property("target_language", "string",
                      "Target language for the summary (optional)", <<>>,
                      Undefined, Undefined, Undefined),
             Property("cache", "boolean", "Whether to use cached results", <<>>,
                      Bool(TRUE), Undefined, Undefined)>>,
           <<>>, <<[required |-> <<"url">>], [required |-> <<"text">>]>>),
      Tool("kagi_fastgpt",
           "Get AI-generated answers with cited references using Kagi's FastGPT",
           <<Property("query", "string", "Question or query for FastGPT", <<>>,
                      Undefined, Undefined, Undefined),
             Property("cache", "boolean", "Whether to use cached results", <<>>,
                      Bool(TRUE), Undefined, Undefined)>>,
           <<"query">>, <<>>),
      Tool("kagi_enrich", "Get enhanced search results from Kagi's curated indexes",
           <<Property("query", "string", "Search query for enriched results", <<>>,
                      Undefined, Undefined, Undefined)>>,
           <<"query">>, <<>>),
      Tool("health_check",
           "Verify server operational status and retrieve server information",
           <<>>, <<>>, <<>>)>>

\* The names of the descriptors the ListTools handler returns, in order.
ToolNames == [i \in 1 .. Len(Tools) |-> Tools[i].name]

\* request.params.arguments: present is FALSE when the request carries no
\* arguments object at all; a field the caller left out is Undefined.
Arguments(q, l, u, tx, e, st, tl, c) ==
    [present |-> TRUE, query |-> q, limit |-> l, url |-> u, text |-> tx,
     engine |-> e, summary_type |-> st, target_language |-> tl, cache |-> c]

NoArguments ==
    [present |-> FALSE, query |-> Undefined, limit |-> Undefined, url |-> Undefined,
     text |-> Undefined, engine |-> Undefined, summary_type |-> Undefined,
     target_language |-> Undefined, cache |-> Undefined]

\* request.params.arguments?.f
Arg(req, f) == IF req.arguments.present THEN req.arguments[f] ELSE Undefined

\* What a handler run does before it suspends or completes:
\*   kind "throw":  it throws Error(message);
\*   kind "return": it returns the envelope {content};
\*   kind "await":  it calls the provider operation `call` and suspends.
NoCall == [op |-> "none", args |-> <<>>]

Throw(m) == [kind |-> "throw", message |-> m, content |-> <<>>, call |-> NoCall]

\* Mutant of Envelope: the payload object is returned as a second content item
\* next to its text.
EnvelopeWithPayloadItem(results) ==
    [kind |-> "return", message |-> "",
     content |-> <<[type |-> "text", text |-> Stringify(results)],
                   [type |-> "json", text |-> Stringify(results)]>>, call |-> NoCall]

\* { content: [{ type: "text", text: JSON.stringify(results, null, 2) }] }
Envelope(results) ==
    [kind |-> "return", message |-> "",
     content |-> <<[type |-> "text", text |-> Stringify(results)]>>, call |-> NoCall]

Await(op, args) ==
    [kind |-> "await", message |-> "", content |-> <<>>, call |-> [op |-> op, args |-> args]]

\* Mutant of SearchCase: a missing limit is replaced by the maximum.
SearchCaseDefaultsToMax(req) ==
    IF ~Truthy(Str(String(Arg(req, "query")))) THEN Throw("Query is required")
    ELSE Await("search",
               <<Str(String(Arg(req, "query"))),
                 MathMin(Number(Or(Arg(req, "limit"), Num(MaxLimit))), Num(MaxLimit))>>)

\* Mutant of SearchCase: limit and query are passed in each other's position.
SearchCaseArgsSwapped(req) ==
    IF ~Truthy(Str(String(Arg(req, "query")))) THEN Throw("Query is required")
    ELSE Await("search",
               <<MathMin(Number(Or(Arg(req, "limit"), Num(DefaultLimit))), Num(MaxLimit)),
                 Str(String(Arg(req, "query")))>>)

\* Mutant of SearchCase: a limit below 1 is raised to 1.
SearchCaseFloorsAtOne(req) ==
    IF ~Truthy(Str(String(Arg(req, "query")))) THEN Throw("Query is required")
    ELSE Await("search",
               <<Str(String(Arg(req, "query"))),
                 LET limit == MathMin(Number(Or(Arg(req, "limit"), Num(DefaultLimit))),
                                      Num(MaxLimit))
                 IN  IF limit.t = "number" /\ limit.n < 1 THEN Num(1) ELSE limit>>)

\* case "kagi_search", up to the await
SearchCase(req) ==
    LET query == Str(String(Arg(req, "query")))
        limit == MathMin(Number(Or(Arg(req, "limit"), Num(DefaultLimit))), Num(MaxLimit))
    IN  IF ~Truthy(query) THEN Throw("Query is required")
        ELSE Await("search", <<query, limit>>)

\* Mutant of SummarizeOptionArgs: cache is defaulted with `||`, which also
\* replaces a supplied false.
SummarizeOptionArgsCacheOr(req) ==
    <<Str(String(Or(Arg(req, "engine"), Str("cecil")))),
      Str(String(Or(Arg(req, "summary_type"), Str("summary")))),
      IF Truthy(Arg(req, "target_language"))
      THEN Str(String(Arg(req, "target_language"))) ELSE Undefined,
      Bool(Boolean(Or(Arg(req, "cache"), Bool(TRUE))))>>

\* engine, summary_type, target_language and cache of case "kagi_summarize".
SummarizeOptionArgs(req) ==
    <<Str(String(Or(Arg(req, "engine"), Str("cecil")))),
      Str(String(Or(Arg(req, "summary_type"), Str("summary")))),
      IF Truthy(Arg(req, "target_language"))
      THEN Str(String(Arg(req, "target_language"))) ELSE Undefined,
      IF Arg(req, "cache") # Undefined THEN Bool(Boolean(Arg(req, "cache"))) ELSE Bool(TRUE)>>

\* Mutant of SummarizeUrl: url is kept whenever the caller sent it, also when
\* it is the empty string.
SummarizeUrlKeepsEmpty(req) ==
    IF Arg(req, "url") # Undefined THEN Str(String(Arg(req, "url"))) ELSE Undefined

\* url of case "kagi_summarize"
SummarizeUrl(req) == IF Truthy(Arg(req, "url")) THEN Str(String(Arg(req, "url"))) ELSE Undefined

\* text of case "kagi_summarize"
SummarizeText(req) == IF Truthy(Arg(req, "text")) THEN Str(String(Arg(req, "text"))) ELSE Undefined

\* Mutant of SummarizeCase: the check that url and text are not both given is left out.
SummarizeCaseNoConflictCheck(req) ==
    IF ~Truthy(SummarizeUrl(req)) /\ ~Truthy(SummarizeText(req))
    THEN Throw("Either url or text is required")
    ELSE Await("summarize",
               <<SummarizeUrl(req), SummarizeText(req)>> \o SummarizeOptionArgs(req))

\* Mutant of SummarizeCase: the check that one of url and text is given is left out.
SummarizeCaseNoMissingCheck(req) ==
    IF Truthy(SummarizeUrl(req)) /\ Truthy(SummarizeText(req))
    THEN Throw("Only one of url or text should be provided")
    ELSE Await("summarize",
               <<SummarizeUrl(req), SummarizeText(req)>> \o SummarizeOptionArgs(req))

\* Mutant of SummarizeCase: url and text are passed in each other's position.
SummarizeCaseSwapped(req) ==
    IF ~Truthy(SummarizeUrl(req)) /\ ~Truthy(SummarizeText(req))
    THEN Throw("Either url or text is required")
    ELSE IF Truthy(SummarizeUrl(req)) /\ Truthy(SummarizeText(req))
         THEN Throw("Only one of url or text should be provided")
         ELSE Await("summarize",
                    <<SummarizeText(req), SummarizeUrl(req)>> \o SummarizeOptionArgs(req))

\* Mutant of SummarizeCase: an engine or summary_type outside the values the
\* catalog declares is rejected.
SummarizeCaseChecksEnums(req) ==
    IF ~Truthy(SummarizeUrl(req)) /\ ~Truthy(SummarizeText(req))
    THEN Throw("Either url or text is required")
    ELSE IF Truthy(SummarizeUrl(req)) /\ Truthy(SummarizeText(req))
         THEN Throw("Only one of url or text should be provided")
         ELSE IF \/ SummarizeOptionArgs(req)[1].s
                        \notin {"cecil", "agnes", "daphne", "muriel"}
                 \/ SummarizeOptionArgs(req)[2].s \notin {"summary", "takeaway"}
              THEN Throw("Invalid engine or summary_type")
              ELSE Await("summarize",
                         <<SummarizeUrl(req), SummarizeText(req)>> \o SummarizeOptionArgs(req))

\* case "kagi_summarize", up to the await
SummarizeCase(req) ==
    LET url  == SummarizeUrl(req)
        text == SummarizeText(req)
    IN  IF ~Truthy(url) /\ ~Truthy(text) THEN Throw("Either url or text is required")
        ELSE IF Truthy(url) /\ Truthy(text)
             THEN Throw("Only one of url or text should be provided")
             ELSE Await("summarize", <<url, text>> \o SummarizeOptionArgs(req))

\* Mutant of FastgptCase: the query is not validated.
FastgptCaseUnchecked(req) ==
    Await("fastgpt",
          <<Str(String(Arg(req, "query"))),
            IF Arg(req, "cache") # Undefined THEN Bool(Boolean(Arg(req, "cache")))
            ELSE Bool(TRUE)>>)

\* Mutant of FastgptCase: cache is defaulted with `||`, which also replaces a
\* supplied false.
FastgptCaseCacheOr(req) ==
    IF ~Truthy(Str(String(Arg(req, "query")))) THEN Throw("Query is required")
    ELSE Await("fastgpt",
               <<Str(String(Arg(req, "query"))),
                 Bool(Boolean(Or(Arg(req, "cache"), Bool(TRUE))))>>)

\* case "kagi_fastgpt", up to the await
FastgptCase(req) ==
    LET query == Str(String(Arg(req, "query")))
        cache == IF Arg(req, "cache") # Undefined
                 THEN Bool(Boolean(Arg(req, "cache")))
                 ELSE Bool(TRUE)
    IN  IF ~Truthy(query) THEN Throw("Query is required")
        ELSE Await("fastgpt", <<query, cache>>)

\* Mutant of EnrichCase: the provider is called before the query is validated.
EnrichCaseCallsFirst(req) ==
    IF ~Truthy(Str(String(Arg(req, "query"))))
    THEN [Throw("Query is required") EXCEPT
            !.call = [op |-> "enrich", args |-> <<Str(String(Arg(req, "query")))>>]]
    ELSE Await("enrich", <<Str(String(Arg(req, "query")))>>)

\* case "kagi_enrich", up to the await
EnrichCase(req) ==
    LET query == Str(String(Arg(req, "query")))
    IN  IF ~Truthy(query) THEN Throw("Query is required")
        ELSE Await("enrich", <<query>>)
\* The characters of the string literals that appear in JSON values.
Chars(str) ==
    CASE str = "status" ->
           <<"s", "t", "a", "t", "u", "s">>
      [] str = "healthy" ->
           <<"h", "e", "a", "l", "t", "h", "y">>
      [] str = "server_name" ->
           <<"s", "e", "r", "v", "e", "r", "_", "n", "a", "m", "e">>
      [] str = "kagiserver" ->
           <<"k", "a", "g", "i", "s", "e", "r", "v", "e", "r">>
      [] str = "server_version" ->
           <<"s", "e", "r", "v", "e", "r", "_", "v", "e", "r", "s", "i", "o", "n">>
      [] str = "0.2.0" ->
           <<"0", ".", "2", ".", "0">>
      [] str = "timestamp" ->
           <<"t", "i", "m", "e", "s", "t", "a", "m", "p">>
      [] str = "available_tools_count" ->
           <<"a", "v", "a", "i", "l", "a", "b", "l", "e", "_", "t", "o", "o", "l", "s", "_", "c", "o", "u", "n", "t">>
      [] str = "available_tools" ->
           <<"a", "v", "a", "i", "l", "a", "b", "l", "e", "_", "t", "o", "o", "l", "s">>
      [] str = "kagi_search" ->
           <<"k", "a", "g", "i", "_", "s", "e", "a", "r", "c", "h">>
      [] str = "kagi_summarize" ->
           <<"k", "a", "g", "i", "_", "s", "u", "m", "m", "a", "r", "i", "z", "e">>
      [] str = "kagi_fastgpt" ->
           <<"k", "a", "g", "i", "_", "f", "a", "s", "t", "g", "p", "t">>
      [] str = "kagi_enrich" ->
           <<"k", "a", "g", "i", "_", "e", "n", "r", "i", "c", "h">>
      [] str = "health_check" ->
           <<"h", "e", "a", "l", "t", "h", "_", "c", "h", "e", "c", "k">>
      [] str = "2024-01-15T10:30:00.000Z" ->
           <<"2", "0", "2", "4", "-", "0", "1", "-", "1", "5", "T", "1", "0", ":", "3", "0", ":", "0", "0", ".", "0", "0", "0", "Z">>
      [] str = "2026-11-06T23:59:59.999Z" ->
           <<"2", "0", "2", "6", "-", "1", "1", "-", "0", "6", "T", "2", "3", ":", "5", "9", ":", "5", "9", ".", "9", "9", "9", "Z">>

\* new Date().toISOString(): the wall clock is an input of the handler.
Timestamps == {"2024-01-15T10:30:00.000Z", "2026-11-06T23:59:59.999Z"}

\* Mutant of availableTools: the array was not extended when health_check was
\* added to the catalog.
availableToolsWithoutHealthCheck ==
    <<"kagi_search", "kagi_summarize", "kagi_fastgpt", "kagi_enrich">>

\* The availableTools array of case "health_check".
availableTools == <<"kagi_search", "kagi_summarize", "kagi_fastgpt", "kagi_enrich", "health_check">>

\* The healthCheckResult object of case "health_check", built at time `now`.
healthCheckResult(now) ==
    JObj(<<Chars("status"), Chars("server_name"), Chars("server_version"),
           Chars("timestamp"), Chars("available_tools_count"), Chars("available_tools")>>,
         <<JStr(Chars("healthy")), JStr(Chars("kagiserver")), JStr(Chars("0.2.0")),
           JStr(Chars(now)), JNum(Len(availableTools)),
           JArr([i \in 1 .. Len(availableTools) |-> JStr(Chars(availableTools[i]))])>>)

\* The envelope case "health_check" returns, for each reading of the clock.
healthCheckEnvelope == [now \in Timestamps |-> Envelope(healthCheckResult(now))]

\* Mutant of HealthCheckCase: the health check probes the provider before it
\* answers.
HealthCheckCaseProbesProvider(req, now) == Await("search", <<Str("ping"), Num(1)>>)

\* case "health_check"
HealthCheckCase(req, now) == healthCheckEnvelope[now]

\* Mutant of Dispatch: a name that matches no case is answered like health_check.
DispatchDefaultsToHealth(req, now) ==
    CASE req.name = "kagi_search"    -> SearchCase(req)
      [] req.name = "kagi_summarize" -> SummarizeCase(req)
      [] req.name = "kagi_fastgpt"   -> FastgptCase(req)
      [] req.name = "kagi_enrich"    -> EnrichCase(req)
      [] OTHER                       -> HealthCheckCase(req, now)

\* Mutant of Dispatch: the switch has no case for health_check, which the
\* catalog lists.
DispatchWithoutHealthCase(req, now) ==
    CASE req.name = "kagi_search"    -> SearchCase(req)
      [] req.name = "kagi_summarize" -> SummarizeCase(req)
      [] req.name = "kagi_fastgpt"   -> FastgptCase(req)
      [] req.name = "kagi_enrich"    -> EnrichCase(req)
      [] OTHER                       -> Throw("Unknown tool")

\* The switch of the CallTool handler, run to its first await, throw or return.
Dispatch(req, now) ==
    CASE req.name = "kagi_search"    -> SearchCase(req)
      [] req.name = "kagi_summarize" -> SummarizeCase(req)
      [] req.name = "kagi_fastgpt"   -> FastgptCase(req)
      [] req.name = "kagi_enrich"    -> EnrichCase(req)
      [] req.name = "health_check"   -> HealthCheckCase(req, now)
      [] OTHER                       -> Throw("Unknown tool")

\* Mutant of FailurePrefix: the prefix of kagi_search copied into every case.
FailurePrefixCopied(name) == "Search failed: "

\* The prefix of the error each case's catch block throws.
FailurePrefix(name) ==
    CASE name = "kagi_search"    -> "Search failed: "
      [] name = "kagi_summarize" -> "Summarization failed: "
      [] name = "kagi_fastgpt"   -> "FastGPT query failed: "
      [] name = "kagi_enrich"    -> "Enrich query failed: "

\* catch (error) { ...; throw new Error(`<prefix>${(error as Error).message}`) }
\* A thrown value is modelled by its `message` property (Undefined if it has none).
Catch(name, error) == Throw(FailurePrefix(name) \o String(error.message))

(***************************************************************************)
(* The four-tool version of the server (src/unnamed/part_001): its catalog *)
(* and its CallTool handler.                                               *)
(***************************************************************************)

\* The `tools` array of the ListTools handler of part_001.
TemplateTools ==
    <<Tool("kagi_search", "Perform a search using the Kagi search engine",
           <<Property("query", "string", "Search query", <<>>,
                      Undefined, Undefined, Undefined),
             Property("limit", "number", "Number of results to return (max 10)", <<>>,
                      Undefined, Num(1), Num(10))>>,
           <<"query">>, <<>>),
      Tool("kagi_summarize",
           "Summarize web pages or text content using Kagi's summarization engine",
           <<Property("url", "string", "URL of the web page to summarize", <<>>,
                      Undefined, Undefined, Undefined),
             Property("text", "string", "Text content to summarize (alternative to URL)",
                      <<>>, Undefined, Undefined, Undefined),
             Property("engine", "string", "Summarization engine to use",
                      <<"cecil", "agnes", "daphne", "muriel">>,
                      Str("cecil"), Undefined, Undefined),
             Property("summary_type", "string", "Type of summary to generate",
                      <<"summary", "takeaway">>, Str("summary"), Undefined, Undefined),
             Property("target_language", "string",
                      "Target language for the summary (optional)", <<>>,
                      Undefined, Undefined, Undefined),
             Property("cache", "boolean", "Whether to use cached results", <<>>,
                      Bool(TRUE), Undefined, Undefined)>>,
           <<>>, <<[required |-> <<"url">>], [required |-> <<"text">>]>>),
      Tool("kagi_fastgpt",
           "Get AI-generated answers with cited references using Kagi's FastGPT",
           <<Property("query", "string", "Question or query for FastGPT", <<>>,
                      Undefined, Undefined, Undefined),
             Property("cache", "boolean", "Whether to use cached results", <<>>,
                      Bool(TRUE), Undefined, Undefined)>>,
           <<"query">>, <<>>),
      Tool("kagi_enrich", "Get enhanced search results from Kagi's curated indexes",
           <<Property("query", "string", "Search query for enriched results", <<>>,
                      Undefined, Undefined, Undefined)>>,
           <<"query">>, <<>>)>>

\* part_001, case "kagi_search", up to the await
TemplateSearchCase(req) ==
    LET query == Str(String(Arg(req, "query")))
        limit == MathMin(Number(Or(Arg(req, "limit"), Num(5))), Num(10))
    IN  IF ~Truthy(query) THEN Throw("Query is required")
        ELSE Await("search", <<query, limit>>)

\* part_001, case "kagi_summarize", up to the await
TemplateSummarizeCase(req) ==
    LET url  == IF Truthy(Arg(req, "url")) THEN Str(String(Arg(req, "url"))) ELSE Undefined
        text == IF Truthy(Arg(req, "text")) THEN Str(String(Arg(req, "text"))) ELSE Undefined
        engine == Str(String(Or(Arg(req, "engine"), Str("cecil"))))
        summary_type == Str(String(Or(Arg(req, "summary_type"), Str("summary"))))
        target_language == IF Truthy(Arg(req, "target_language"))
                           THEN Str(String(Arg(req, "target_language"))) ELSE Undefined
        cache == IF Arg(req, "cache") # Undefined
                 THEN Bool(Boolean(Arg(req, "cache"))) ELSE Bool(TRUE)
    IN  IF ~Truthy(url) /\ ~Truthy(text) THEN Throw("Either url or text is required")
        ELSE IF Truthy(url) /\ Truthy(text)
             THEN Throw("Only one of url or text should be provided")
             ELSE Await("summarize",
                        <<url, text, engine, summary_type, target_language, cache>>)

\* Mutant of TemplateFastgptCase: the older version passes the query only and
\* leaves cache to the provider's default.
TemplateFastgptCaseNoCache(req) ==
    IF ~Truthy(Str(String(Arg(req, "query")))) THEN Throw("Query is required")
    ELSE Await("fastgpt", <<Str(String(Arg(req, "query")))>>)

\* part_001, case "kagi_fastgpt", up to the await
TemplateFastgptCase(req) ==
    LET query == Str(String(Arg(req, "query")))
        cache == IF Arg(req, "cache") # Undefined
                 THEN Bool(Boolean(Arg(req, "cache"))) ELSE Bool(TRUE)
    IN  IF ~Truthy(query) THEN Throw("Query is required")
        ELSE Await("fastgpt", <<query, cache>>)

\* part_001, case "kagi_enrich", up to the await
TemplateEnrichCase(req) ==
    LET query == Str(String(Arg(req, "query")))
    IN  IF ~Truthy(query) THEN Throw("Query is required")
        ELSE Await("enrich", <<query>>)

\* The switch of the CallTool handler of part_001, run to its first await or
\* throw.
TemplateDispatch(req) ==
    CASE req.name = "kagi_search"    -> TemplateSearchCase(req)
      [] req.name = "kagi_summarize" -> TemplateSummarizeCase(req)
      [] req.name = "kagi_fastgpt"   -> TemplateFastgptCase(req)
      [] req.name = "kagi_enrich"    -> TemplateEnrichCase(req)
      [] OTHER                       -> Throw("Unknown tool")

\* part_001: what a case returns after its await resolved with results.
TemplateEnvelope(results) ==
    [kind |-> "return", message |-> "",
     content |-> <<[type |-> "text", text |-> Stringify(results)]>>, call |-> NoCall]

\* part_001: what the catch block of the case of tool name logs and throws.
TemplateCatch(name, error) ==
    [log   |-> [label |-> "KagiAPI error:", error |-> error],
     throw |-> Throw((CASE name = "kagi_search"    -> "Search failed: "
                        [] name = "kagi_summarize" -> "Summarization failed: "
                        [] name = "kagi_fastgpt"   -> "FastGPT query failed: "
                        [] name = "kagi_enrich"    -> "Enrich query failed: ")
                     \o String(error.message))]

(***************************************************************************)
(* Inputs: the requests of callers, the outcomes of the provider.          *)
(***************************************************************************)
QueryValues == {Undefined, Null, Str(""), Str("cats")}

LimitValues == {Undefined, Null, Num(0), Num(-1), Num(1), Num(3), Num(10), Num(15),
                Num(20), Num(50), Str("7"), Str("abc")}

UrlValues == {Undefined, Str(""), Str("https://example.com")}

TextValues == {Undefined, Str(""), Str("Some text")}

CacheValues == {Undefined, Bool(TRUE), Bool(FALSE), Str("false")}

\* engine, summary_type, target_language and cache of a kagi_summarize request:
\* all left out, all set, all empty, and single ones set, also to values
\* outside the declared enums.
SummarizeOptions ==
    {<<Undefined, Undefined, Undefined, Undefined>>,
     <<Str("agnes"), Str("takeaway"), Str("es"), Bool(FALSE)>>,
     <<Str(""), Str(""), Str(""), Undefined>>,
     <<Str("bogus"), Undefined, Undefined, Undefined>>,
     <<Undefined, Str("bogus"), Undefined, Undefined>>,
     <<Undefined, Undefined, Str("es"), Bool(TRUE)>>,
     <<Undefined, Str("takeaway"), Undefined, Str("false")>>}

\* Argument objects every tool name is tried with, also the names that do not
\* read them.
SampleArguments ==
    {NoArguments,
     Arguments(Undefined, Undefined, Undefined, Undefined,
               Undefined, Undefined, Undefined, Undefined),
     Arguments(Str("cats"), Undefined, Str("https://example.com"), Str("Some text"),
               Str("agnes"), Undefined, Undefined, Undefined),
     Arguments(Undefined, Num(50), Undefined, Str("Some text"),
               Undefined, Str("takeaway"), Str("es"), Bool(TRUE))}

\* Tool names a caller may send: the five of the catalog and two others.
RequestNames ==
    {"kagi_search", "kagi_summarize", "kagi_fastgpt", "kagi_enrich", "health_check",
     "does_not_exist", ""}

Requests ==
    {[name |-> nm, arguments |-> a] : nm \in RequestNames, a \in SampleArguments}
    \cup {[name |-> "kagi_search",
           arguments |-> Arguments(q, l, Undefined, Undefined,
                                   Undefined, Undefined, Undefined, Undefined)] :
             q \in QueryValues, l \in {Undefined, Num(50)}}
    \cup {[name |-> "kagi_search",
           arguments |-> Arguments(Str("cats"), l, Undefined, Undefined,
                                   Undefined, Undefined, Undefined, Undefined)] :
             l \in LimitValues}
    \cup {[name |-> "kagi_summarize",
           arguments |-> Arguments(Undefined, Undefined, u, tx, o[1], o[2], o[3], o[4])] :
             u \in UrlValues, tx \in TextValues, o \in SummarizeOptions}
    \cup {[name |-> "kagi_fastgpt",
           arguments |-> Arguments(q, Undefined, Undefined, Undefined,
                                   Undefined, Undefined, Undefined, c)] :
             q \in QueryValues, c \in CacheValues}
    \cup {[name |-> "kagi_enrich",
           arguments |-> Arguments(q, Undefined, Undefined, Undefined,
                                   Undefined, Undefined, Undefined, Undefined)] :
             q \in QueryValues}

\* What a provider operation or the transport may throw: an Error with a
\* message, or a value that has no `message` property.
Errors == {[message |-> Str("API error")], [message |-> Str("")], [message |-> Undefined]}

NoError == [message |-> Null]

kResults == <<"r", "e", "s", "u", "l", "t", "s">>

kTitle == <<"t", "i", "t", "l", "e">>

kAnswer == <<"a", "n", "s", "w", "e", "r">>

kRank == <<"r", "a", "n", "k">>

\* Responses of the provider: { results: [] }, a result list with a nested
\* object, an answer with characters that need escaping, and a bare array.
Responses ==
    {JObj(<<kResults>>, <<JArr(<<>>)>>),
     JObj(<<kResults>>,
          <<JArr(<<JObj(<<kTitle, kRank>>, <<JStr(<<"R", " ", "1">>), JNum(-12)>>),
                   JObj(<<>>, <<>>)>>)>>),
     JObj(<<kAnswer, kResults>>,
          <<JStr(<<"a", "\"", "b", "\\", "\n", ",", "}">>), JNull>>),
     JArr(<<JBool(TRUE), JBool(FALSE), JNum(0), JStr(<<>>)>>)}

(***************************************************************************)
(* The state machine.                                                      *)
(***************************************************************************)
VARIABLES
    proc,        \* the process: "starting", "running" or "exited"
    exitCode,    \* the status passed to process.exit, -1 while the process lives
    inv,         \* per invocation: its position in the handler, the tool whose case it
                 \* is suspended in ("" when it is not suspended), its provider calls
    callCount,   \* how many times the operations of the provider were called
    errlog,      \* the diagnostic channel: what console.error was given, in order
    last         \* the most recent handler run: its request and what it did

vars == <<proc, exitCode, inv, callCount, errlog, last>>

NoReply == [kind |-> "none", message |-> "", content |-> <<>>]

Reply(d) == [kind |-> d.kind, message |-> d.message, content |-> d.content]

Idle ==
    [op |-> "none", id |-> 0, name |-> "", arguments |-> NoArguments, call |-> NoCall,
     error |-> NoError, results |-> JNull, reply |-> NoReply, tools |-> <<>>]

Init ==
    /\ proc = "starting"
    /\ exitCode = -1
    /\ inv = [i \in Ids |-> [pc |-> "unstarted", name |-> "", calls |-> 0]]
    /\ callCount = 0
    /\ errlog = <<>>
    /\ last = Idle

\* main(): server.connect(transport) succeeds.
Connect ==
    /\ proc = "starting"
    /\ proc' = "running"
    /\ UNCHANGED <<exitCode, inv, callCount, errlog, last>>

\* Mutant of ConnectFails: the error is logged but the process is not ended,
\* and the handlers stay registered.
ConnectFailsKeepsRunning(error) ==
    /\ proc = "starting"
    /\ errlog' = Append(errlog, [label |-> "Server error:", error |-> error])
    /\ proc' = "running"
    /\ UNCHANGED <<exitCode, inv, callCount, last>>

\* main().catch: server.connect(transport) throws error.
ConnectFails(error) ==
    /\ proc = "starting"
    /\ errlog' = Append(errlog, [label |-> "Server error:", error |-> error])
    /\ proc' = "exited"
    /\ exitCode' = 1
    /\ UNCHANGED <<inv, callCount, last>>

\* Mutant of ListTools: the catalog of the four provider-backed tools is
\* returned, without health_check.
ListToolsWithoutHealthCheck ==
    /\ proc = "running"
    /\ last' = [Idle EXCEPT !.op = "listTools", !.tools = SubSeq(Tools, 1, 4)]
    /\ UNCHANGED <<proc, exitCode, inv, callCount, errlog>>

\* The ListTools handler.
ListTools ==
    /\ proc = "running"
    /\ last' = [Idle EXCEPT !.op = "listTools", !.tools = Tools]
    /\ UNCHANGED <<proc, exitCode, inv, callCount, errlog>>

\* Mutant of CallTool: once a provider failure was logged the handler refuses
\* every request.
CallToolRemembersFailure(req, now) ==
    /\ proc = "running"
    /\ \E id \in Ids :
         /\ inv[id].pc = "unstarted"
         /\ \A j \in Ids : j < id => inv[j].pc # "unstarted"
         /\ \E d \in {IF errlog # <<>> THEN Throw("Server is in an error state")
                       ELSE Dispatch(req, now)} :
                /\ inv' = [inv EXCEPT ![id] =
                            [pc    |-> IF d.kind = "await" THEN "awaiting" ELSE "done",
                             name  |-> IF d.kind = "await" THEN req.name ELSE "",
                             calls |-> IF d.call # NoCall THEN 1 ELSE 0]]
                /\ callCount' = IF d.call # NoCall THEN callCount + 1 ELSE callCount
                /\ last' = [Idle EXCEPT !.op = "callTool", !.id = id, !.name = req.name,
                                        !.arguments = req.arguments, !.call = d.call,
                                        !.reply = Reply(d)]
    /\ UNCHANGED <<proc, exitCode, errlog>>

\* The CallTool handler from the arrival of a request to its first await,
\* throw or return.
CallTool(req, now) ==
    /\ proc = "running"
    /\ \E id \in Ids :
         /\ inv[id].pc = "unstarted"
         /\ \A j \in Ids : j < id => inv[j].pc # "unstarted"
         /\ \E d \in {Dispatch(req, now)} :
                /\ inv' = [inv EXCEPT ![id] =
                            [pc    |-> IF d.kind = "await" THEN "awaiting" ELSE "done",
                             name  |-> IF d.kind = "await" THEN req.name ELSE "",
                             calls |-> IF d.call # NoCall THEN 1 ELSE 0]]
                /\ callCount' = IF d.call # NoCall THEN callCount + 1 ELSE callCount
                /\ last' = [Idle EXCEPT !.op = "callTool", !.id = id, !.name = req.name,
                                        !.arguments = req.arguments, !.call = d.call,
                                        !.reply = Reply(d)]
    /\ UNCHANGED <<proc, exitCode, errlog>>

\* Mutant of ProviderResolves: the handler awaits once more after its provider
\* call resolved and never returns.
ProviderResolvesKeepsWaiting(id, results) ==
    /\ proc = "running"
    /\ inv[id].pc = "awaiting"
    /\ last' = [Idle EXCEPT !.op = "resolve", !.id = id, !.name = inv[id].name,
                            !.results = results, !.reply = NoReply]
    /\ UNCHANGED <<proc, exitCode, inv, callCount, errlog>>

\* The provider call of invocation id resolves with results: the handler
\* resumes after its await and returns the envelope.
ProviderResolves(id, results) ==
    /\ proc = "running"
    /\ inv[id].pc = "awaiting"
    /\ inv' = [inv EXCEPT ![id].pc = "done", ![id].name = ""]
    /\ last' = [Idle EXCEPT !.op = "resolve", !.id = id, !.name = inv[id].name,
                            !.results = results, !.reply = Reply(Envelope(results))]
    /\ UNCHANGED <<proc, exitCode, callCount, errlog>>

\* Mutant of ProviderRejects: the catch block calls the provider again and
\* the invocation goes on waiting.
ProviderRejectsRetries(id, error) ==
    /\ proc = "running"
    /\ inv[id].pc = "awaiting"
    /\ errlog' = Append(errlog, [label |-> "KagiAPI error:", error |-> error])
    /\ inv' = [inv EXCEPT ![id].calls = @ + 1]
    /\ callCount' = callCount + 1
    /\ last' = [Idle EXCEPT !.op = "reject", !.id = id, !.name = inv[id].name,
                            !.error = error, !.reply = NoReply]
    /\ UNCHANGED <<proc, exitCode>>

\* Mutant of ProviderRejects: the catch block throws the wrapped error without
\* logging the raw one.
ProviderRejectsUnlogged(id, error) ==
    /\ proc = "running"
    /\ inv[id].pc = "awaiting"
    /\ inv' = [inv EXCEPT ![id].pc = "done", ![id].name = ""]
    /\ last' = [Idle EXCEPT !.op = "reject", !.id = id, !.name = inv[id].name,
                            !.error = error, !.reply = Reply(Catch(inv[id].name, error))]
    /\ UNCHANGED <<proc, exitCode, callCount, errlog>>

\* Mutant of ProviderRejects: the catch block takes the prefix from a variable
\* shared by all handler runs, which holds the tool of the invocation that
\* started last.
ProviderRejectsSharedPrefix(id, error) ==
    /\ proc = "running"
    /\ inv[id].pc = "awaiting"
    /\ errlog' = Append(errlog, [label |-> "KagiAPI error:", error |-> error])
    /\ inv' = [inv EXCEPT ![id].pc = "done", ![id].name = ""]
    /\ \E j \in Ids :
         /\ inv[j].pc = "awaiting"
         /\ \A k \in Ids : inv[k].pc = "awaiting" => k <= j
         /\ last' = [Idle EXCEPT !.op = "reject", !.id = id, !.name = inv[id].name,
                                 !.error = error, !.reply = Reply(Catch(inv[j].name, error))]
    /\ UNCHANGED <<proc, exitCode, callCount>>

\* The provider call of invocation id rejects with error: the handler resumes
\* in its catch block, logs the error and throws the wrapped one.
ProviderRejects(id, error) ==
    /\ proc = "running"
    /\ inv[id].pc = "awaiting"
    /\ errlog' = Append(errlog, [label |-> "KagiAPI error:", error |-> error])
    /\ inv' = [inv EXCEPT ![id].pc = "done", ![id].name = ""]
    /\ last' = [Idle EXCEPT !.op = "reject", !.id = id, !.name = inv[id].name,
                            !.error = error, !.reply = Reply(Catch(inv[id].name, error))]
    /\ UNCHANGED <<proc, exitCode, callCount>>

Next ==
    \/ Connect
    \/ \E error \in Errors : ConnectFails(error)
    \/ ListTools
    \/ \E req \in Requests :
         \E now \in (IF req.name = "health_check" THEN Timestamps
                     ELSE {CHOOSE t \in Timestamps : TRUE}) : CallTool(req, now)
    \/ \E id \in Ids, results \in Responses : ProviderResolves(id, results)
    \/ \E id \in Ids, error \in Errors : ProviderRejects(id, error)

Spec == Init /\ [][Next]_vars

\* The provider call of invocation id settles: it resolves or it rejects.
Settles(id) ==
    \/ \E results \in Responses : ProviderResolves(id, results)
    \/ \E error \in Errors : ProviderRejects(id, error)

(***************************************************************************)
(* The provider responses of the round-trip check: every JSON value built  *)
(* from the atoms below within the bounds, nested up to three levels.      *)
(***************************************************************************)

\* Longest string value.
MaxStringLen == 2

\* Longest array of atoms.
MaxArrayLen == 2

\* Characters of string values: a letter that is also an escape letter, the
\* characters JSON.stringify escapes, and one that is JSON punctuation.
StringChars == {"n", "\"", "\\", "\n", ":"}

JsonStrings == UNION {[1 .. len -> StringChars] : len \in 0 .. MaxStringLen}

JsonAtoms ==
    {JNull, JBool(TRUE), JBool(FALSE), JNum(0), JNum(-7), JNum(120)}
    \cup {JStr(cs) : cs \in JsonStrings}

\* The atoms that are nested in arrays and objects.
NestedAtoms == {JNull, JBool(TRUE), JNum(-7), JStr(<<>>), JStr(<<"\\", "\"">>)}

JsonKeys == {<<"k">>, <<"\"">>, <<>>}

JsonArrays == {JArr(xs) : xs \in UNION {[1 .. len -> NestedAtoms] : len \in 0 .. MaxArrayLen}}

JsonObjects ==
    {JObj(<<>>, <<>>)}
    \cup {JObj(<<k1>>, <<x>>) : k1 \in JsonKeys, x \in NestedAtoms}
    \cup {JObj(<<k[1], k[2]>>, <<x, y>>) :
            k \in {kk \in JsonKeys \X JsonKeys : kk[1] # kk[2]},
            x \in NestedAtoms, y \in NestedAtoms}

\* Arrays and objects of at most one member, the ones nested further.
SmallContainers ==
    {c \in JsonArrays \cup JsonObjects : Len(c.a) <= 1}

NestedContainers ==
    {JArr(<<c>>) : c \in SmallContainers}
    \cup {JObj(<<kResults>>, <<c>>) : c \in SmallContainers}
    \cup {JArr(<<x, c>>) : x \in {JNum(0), JStr(<<":">>)}, c \in SmallContainers}

DeepContainers ==
    {JObj(<<kResults>>, <<JArr(<<JObj(<<kTitle, kRank>>, <<x, JArr(<<y>>)>>)>>)>>) :
        x \in NestedAtoms, y \in NestedAtoms}

JsonValues == JsonAtoms \cup JsonArrays \cup JsonObjects \cup NestedContainers \cup DeepContainers

\* One valid request for each provider-backed tool.
ProviderRequests ==
    {[name |-> "kagi_search",
      arguments |-> Arguments(Str("cats"), Undefined, Undefined, Undefined,
                              Undefined, Undefined, Undefined, Undefined)],
     [name |-> "kagi_summarize",
      arguments |-> Arguments(Undefined, Undefined, Str("https://example.com"), Undefined,
                              Undefined, Undefined, Undefined, Undefined)],
     [name |-> "kagi_fastgpt",
      arguments |-> Arguments(Str("cats"), Undefined, Undefined, Undefined,
                              Undefined, Undefined, Undefined, Undefined)],
     [name |-> "kagi_enrich",
      arguments |-> Arguments(Str("cats"), Undefined, Undefined, Undefined,
                              Undefined, Undefined, Undefined, Undefined)]}

\* The server answering one valid request, the provider resolving with any of
\* JsonValues.
RoundTripNext ==
    \/ Connect
    \/ \E req \in ProviderRequests :
         /\ \A i \in Ids : inv[i].pc = "unstarted"
         /\ CallTool(req, CHOOSE t \in Timestamps : TRUE)
    \/ \E id \in Ids, results \in JsonValues : ProviderResolves(id, results)

RoundTripSpec == Init /\ [][RoundTripNext]_vars

\* Requests that end each way an invocation can end: the valid request of each
\* provider-backed tool, one request for each validation error, an unknown
\* tool name and health_check.
OutcomeRequests ==
    ProviderRequests
    \cup {[name |-> "kagi_enrich",
           arguments |-> Arguments(Str(""), Undefined, Undefined, Undefined,
                                   Undefined, Undefined, Undefined, Undefined)],
          [name |-> "kagi_summarize",
           arguments |-> Arguments(Undefined, Undefined, Undefined, Undefined,
                                   Undefined, Undefined, Undefined, Undefined)],
          [name |-> "kagi_summarize",
           arguments |-> Arguments(Undefined, Undefined, Str("https://example.com"),
                                   Str("Some text"), Undefined, Undefined, Undefined,
                                   Undefined)],
          [name |-> "does_not_exist", arguments |-> NoArguments],
          [name |-> "health_check", arguments |-> NoArguments]}

LiveNext ==
    \/ Connect
    \/ \E error \in Errors : ConnectFails(error)
    \/ ListTools
    \/ \E req \in OutcomeRequests : CallTool(req, CHOOSE t \in Timestamps : TRUE)
    \/ \E id \in Ids : Settles(id)

\* The server with a provider whose calls settle: a promise of the provider
\* that is pending is eventually resolved or rejected, and the event loop then
\* resumes the handler that awaits it.
LiveSpec == Init /\ [][LiveNext]_vars /\ \A id \in Ids : WF_vars(Settles(id))

(***************************************************************************)
(* Properties.                                                             *)
(***************************************************************************)
CatalogNames == {ToolNames[i] : i \in 1 .. Len(ToolNames)}

\* The last step was a run of the CallTool handler on a request for tool nm.
Called(nm) == last.op = "callTool" /\ last.name = nm

\* request.params.arguments?.f of the request of the last CallTool run.
LastArg(f) == IF last.arguments.present THEN last.arguments[f] ELSE Undefined

Failed(m) == last.reply = [kind |-> "throw", message |-> m, content |-> <<>>]

QueryTools == {"kagi_search", "kagi_fastgpt", "kagi_enrich"}

\* C1: callTool with a tool name that is not one of the five catalog names fails
\* with the error "Unknown tool", whatever the arguments are, and calls no
\* provider operation.
C1_UnknownToolFails ==
    (last.op = "callTool" /\ last.name \notin CatalogNames)
        => (Failed("Unknown tool") /\ last.call = NoCall)

C1_Witness ==
    /\ last.op = "callTool"
    /\ last.name = ""
    /\ last.arguments.present
    /\ Truthy(last.arguments.url) /\ Truthy(last.arguments.query)
    /\ Failed("Unknown tool")

\* C2: for kagi_search, kagi_fastgpt and kagi_enrich, callTool with `query`
\* absent (arguments {} or no arguments at all) fails with "Query is required"
\* and does not reach the provider.
C2_AbsentQueryFails ==
    (last.op = "callTool" /\ last.name \in QueryTools /\ LastArg("query") = Undefined)
        => (Failed("Query is required") /\ last.call = NoCall)

\* C3: for kagi_search, kagi_fastgpt and kagi_enrich, callTool with `query`
\* equal to the empty string fails with "Query is required".
C3_EmptyQueryFails ==
    (last.op = "callTool" /\ last.name \in QueryTools /\ LastArg("query") = Str(""))
        => (Failed("Query is required") /\ last.call = NoCall)

C3_Witness ==
    /\ Called("kagi_fastgpt")
    /\ LastArg("query") = Str("")
    /\ LastArg("cache") = Bool(FALSE)
    /\ Failed("Query is required")
    /\ \A nm \in QueryTools :
         \E req \in Requests : req.name = nm /\ req.arguments.query = Str("")

\* `url` / `text` is supplied: it is there with a non-empty value (an empty
\* string, like a left-out field, counts as absent).
Supplied(f) == Truthy(LastArg(f))

\* C4: kagi_summarize with both `url` and `text` present fails with "Only one of
\* url or text should be provided", whatever the other arguments are.
C4_BothUrlAndTextFails ==
    (Called("kagi_summarize") /\ Supplied("url") /\ Supplied("text"))
        => (Failed("Only one of url or text should be provided") /\ last.call = NoCall)

C4_Witness ==
    /\ Called("kagi_summarize")
    /\ Supplied("url") /\ Supplied("text")
    /\ LastArg("engine") = Str("agnes") /\ LastArg("cache") = Bool(FALSE)
    /\ Failed("Only one of url or text should be provided")

\* C5: kagi_summarize with neither `url` nor `text` present fails with "Either
\* url or text is required", whatever the other arguments are.
C5_NeitherUrlNorTextFails ==
    (Called("kagi_summarize") /\ ~Supplied("url") /\ ~Supplied("text"))
        => (Failed("Either url or text is required") /\ last.call = NoCall)

C5_Witness ==
    /\ Called("kagi_summarize")
    /\ last.arguments.present
    /\ LastArg("url") = Undefined /\ LastArg("text") = Undefined
    /\ LastArg("engine") = Str("agnes") /\ LastArg("summary_type") = Str("takeaway")
    /\ Failed("Either url or text is required")

\* C6: kagi.summarize is invoked if and only if exactly one of `url` / `text`
\* was supplied, and then the supplied one is passed as a string and the other
\* as undefined; the provider never receives both or neither.
C6_ExactlyOneAtProvider ==
    /\ (last.op = "callTool" /\ last.call.op = "summarize") => last.name = "kagi_summarize"
    /\ Called("kagi_summarize") =>
         /\ (last.call.op = "summarize") <=> (Supplied("url") # Supplied("text"))
         /\ (last.call.op = "summarize" /\ Supplied("url")) =>
              /\ last.call.args[1] = Str(String(LastArg("url")))
              /\ last.call.args[2] = Undefined
         /\ (last.call.op = "summarize" /\ Supplied("text")) =>
              /\ last.call.args[1] = Undefined
              /\ last.call.args[2] = Str(String(LastArg("text")))
         /\ last.call.op = "summarize" =>
              (last.call.args[1] = Undefined) # (last.call.args[2] = Undefined)

C6_Witness ==
    /\ Called("kagi_summarize")
    /\ LastArg("url") = Str("") /\ LastArg("text") = Str("Some text")
    /\ last.call.op = "summarize"
    /\ last.call.args[1] = Undefined /\ last.call.args[2] = Str("Some text")

ValidationMessages ==
    {"Query is required", "Either url or text is required",
     "Only one of url or text should be provided", "Unknown tool"}

\* C7: an invocation that ends in MissingParameter, ConflictingParameters or
\* UnsupportedTool makes no provider call: the run of the handler that throws
\* it leaves the provider call count unchanged.
C7_ValidationPrecedesProvider ==
    [][(last'.op = "callTool" /\ last'.reply.kind = "throw")
         => /\ last'.reply.message \in ValidationMessages
            /\ callCount' = callCount
            /\ last'.call = NoCall
            /\ inv'[last'.id].calls = 0]_vars

C7_Witness ==
    /\ last.op = "callTool" /\ last.id = 2
    /\ last.reply.kind = "throw"
    /\ last.reply.message = "Only one of url or text should be provided"
    /\ callCount = 1
    /\ inv[1].pc = "awaiting"

\* C8: when the provider operation of a tool raises an error with message m,
\* callTool fails with the error whose message is that tool's prefix followed by
\* m, and returns no envelope.
C8_ProviderFailureWrapped ==
    (last.op = "reject" /\ last.error.message.t = "string") =>
        /\ last.reply.kind = "throw"
        /\ last.reply.content = <<>>
        /\ last.name \in {"kagi_search", "kagi_summarize", "kagi_fastgpt", "kagi_enrich"}
        /\ last.name = "kagi_search" =>
             last.reply.message = "Search failed: " \o last.error.message.s
        /\ last.name = "kagi_summarize" =>
             last.reply.message = "Summarization failed: " \o last.error.message.s
        /\ last.name = "kagi_fastgpt" =>
             last.reply.message = "FastGPT query failed: " \o last.error.message.s
        /\ last.name = "kagi_enrich" =>
             last.reply.message = "Enrich query failed: " \o last.error.message.s

C8_Witness ==
    /\ last.op = "reject"
    /\ last.name = "kagi_fastgpt"
    /\ last.error.message = Str("API error")
    /\ last.reply.message = "FastGPT query failed: API error"

\* The invocations started so far.
Started == {i \in Ids : inv[i].pc # "unstarted"}

\* C9: no retry: every invocation makes at most one provider call, an invocation
\* whose provider call raised has made exactly one, and the provider calls made
\* never outnumber the invocations.
C9_NoRetry ==
    /\ \A i \in Ids : inv[i].calls <= 1
    /\ last.op = "reject" => (inv[last.id].calls = 1 /\ inv[last.id].pc = "done")
    /\ callCount <= Cardinality(Started)

C9_Witness ==
    /\ last.op = "reject"
    /\ callCount = 2
    /\ Len(errlog) = 2
    /\ \A i \in Ids : i <= 2 => inv[i].pc = "done"

\* C10: round trip: the text of the envelope returned for a provider response r,
\* parsed back as JSON, is r.
C10_RoundTrip ==
    last.op = "resolve" =>
        /\ last.reply.kind = "return"
        /\ Len(last.reply.content) = 1
        /\ Parse(last.reply.content[1].text) = [ok |-> TRUE, v |-> last.results]

C10_Witness ==
    /\ last.op = "resolve"
    /\ last.results \in DeepContainers
    /\ last.results.a[1].a[1].a[1] = JStr(<<"\\", "\"">>)
    /\ Parse(last.reply.content[1].text).v = last.results


\* A string, as the model holds it: a sequence of single characters.
IsString(txt) == \A i \in 1 .. Len(txt) : Len(txt[i]) = 1

\* The last step completed an invocation by returning an envelope.
Returned == last.op \in {"callTool", "resolve"} /\ last.reply.kind = "return"

\* C11: every callTool invocation that succeeds, for any of the five tools and
\* any provider response, returns an envelope whose content is a sequence of
\* exactly one item; that item has type "text" and its text field is a string.
C11_EnvelopeShape ==
    Returned =>
        /\ last.name \in CatalogNames
        /\ Len(last.reply.content) = 1
        /\ last.reply.content[1].type = "text"
        /\ DOMAIN last.reply.content[1] = {"type", "text"}
        /\ IsString(last.reply.content[1].text)
        /\ Len(last.reply.content[1].text) > 0

\* A provider-backed invocation returned the envelope of a response that holds
\* nested values.
C11_Witness ==
    /\ last.op = "resolve"
    /\ last.name = "kagi_fastgpt"
    /\ last.results = JObj(<<kAnswer, kResults>>,
                           <<JStr(<<"a", "\"", "b", "\\", "\n", ",", "}">>), JNull>>)
    /\ last.reply.kind = "return"
    /\ Len(last.reply.content) = 1

\* The kagi_search case called the provider in the last step.
SearchCalled == Called("kagi_search") /\ last.call # NoCall

\* C12: in every call kagi_search makes to the provider the limit passed is (a
\* number that is) at most 10; a requested limit greater than 10 (50, 20, 15)
\* reaches the provider as 10, never as the requested value.
C12_UpperClamp ==
    SearchCalled =>
        /\ last.call.args[2].t = "number"
        /\ last.call.args[2].n <= 10
        /\ (LastArg("limit").t = "number" /\ LastArg("limit").n > 10)
               => last.call.args[2] = Num(10)

\* The query argument of the last request is a non-empty string.
ValidQuery == LastArg("query").t = "string" /\ LastArg("query").s # ""

\* C13: kagi_search invoked with a valid query and no limit reaches the
\* provider with limit 5; invoked with a limit L between 1 and 10 it reaches
\* the provider with exactly L.
C13_SearchLimit ==
    (Called("kagi_search") /\ ValidQuery) =>
        /\ LastArg("limit") = Undefined
               => (last.call.op = "search" /\ last.call.args[2] = Num(5))
        /\ \A L \in 1 .. 10 :
               LastArg("limit") = Num(L)
                   => (last.call.op = "search" /\ last.call.args[2] = Num(L))

\* The second invocation is a search with a valid query and no limit, and it
\* has called the provider with the limit 5.
C13_Witness ==
    /\ Called("kagi_search")
    /\ last.id = 2
    /\ ValidQuery
    /\ LastArg("limit") = Undefined
    /\ last.call = [op |-> "search", args |-> <<Str("cats"), Num(5)>>]

\* The kagi_summarize case called the provider in the last step.
SummarizeCalled == Called("kagi_summarize") /\ last.call # NoCall

NonEmptyString(v) == v.t = "string" /\ v.s # ""

\* The options left out of a kagi_summarize request reach the provider as
\* engine "cecil", summary_type "summary", no target_language and cache true.
SummarizeDefaultsApplied ==
    /\ LastArg("engine") = Undefined => last.call.args[3] = Str("cecil")
    /\ LastArg("summary_type") = Undefined => last.call.args[4] = Str("summary")
    /\ LastArg("target_language") = Undefined => last.call.args[5] = Undefined
    /\ LastArg("cache") = Undefined => last.call.args[6] = Bool(TRUE)

\* C14 as stated: kagi_summarize invoked with only url (or only text) reaches
\* the provider with engine "cecil", summary_type "summary", target_language
\* absent and cache true; any of engine, summary_type, target_language and
\* cache that is supplied is forwarded with the supplied value.
C14_SuppliedForwarded ==
    SummarizeCalled =>
        /\ SummarizeDefaultsApplied
        /\ LastArg("engine") # Undefined => last.call.args[3] = LastArg("engine")
        /\ LastArg("summary_type") # Undefined => last.call.args[4] = LastArg("summary_type")
        /\ LastArg("target_language") # Undefined
               => last.call.args[5] = LastArg("target_language")
        /\ LastArg("cache") # Undefined => last.call.args[6] = LastArg("cache")

\* C14, amended: the options left out reach the provider as engine "cecil",
\* summary_type "summary", target_language absent and cache true; engine,
\* summary_type and target_language supplied as a non-empty string and cache
\* supplied as a boolean are forwarded with the supplied value; an empty string
\* is treated like an option left out, and a cache that is not a boolean is
\* forwarded as its truthiness.
C14_SummarizeDefaults ==
    SummarizeCalled =>
        /\ SummarizeDefaultsApplied
        /\ NonEmptyString(LastArg("engine")) => last.call.args[3] = LastArg("engine")
        /\ NonEmptyString(LastArg("summary_type"))
               => last.call.args[4] = LastArg("summary_type")
        /\ NonEmptyString(LastArg("target_language"))
               => last.call.args[5] = LastArg("target_language")
        /\ LastArg("cache").t = "boolean" => last.call.args[6] = LastArg("cache")
        /\ LastArg("engine") = Str("") => last.call.args[3] = Str("cecil")
        /\ LastArg("summary_type") = Str("") => last.call.args[4] = Str("summary")
        /\ LastArg("target_language") = Str("") => last.call.args[5] = Undefined
        /\ LastArg("cache").t \notin {"undefined", "boolean"}
               => last.call.args[6] = Bool(Truthy(LastArg("cache")))

\* A summarize request with only url, target_language and cache set has
\* reached the provider: two options defaulted, two forwarded.
C14_Witness ==
    /\ SummarizeCalled
    /\ LastArg("text") = Undefined
    /\ LastArg("engine") = Undefined
    /\ LastArg("summary_type") = Undefined
    /\ last.call = [op |-> "summarize",
                    args |-> <<Str("https://example.com"), Undefined, Str("cecil"),
                               Str("summary"), Str("es"), Bool(TRUE)>>]

\* C15: kagi_fastgpt invoked with a valid query and no cache reaches the
\* provider with cache true; invoked with cache false it reaches the provider
\* with cache false; in both cases the query is forwarded unchanged.
C15_FastgptCache ==
    (Called("kagi_fastgpt") /\ ValidQuery /\ LastArg("cache") \in {Undefined, Bool(FALSE)}) =>
        /\ last.call.op = "fastgpt"
        /\ Len(last.call.args) = 2
        /\ last.call.args[1] = LastArg("query")
        /\ LastArg("cache") = Undefined => last.call.args[2] = Bool(TRUE)
        /\ LastArg("cache") = Bool(FALSE) => last.call.args[2] = Bool(FALSE)

\* A fastgpt request with cache false has reached the provider.
C15_Witness ==
    /\ Called("kagi_fastgpt")
    /\ LastArg("query") = Str("cats")
    /\ LastArg("cache") = Bool(FALSE)
    /\ last.call = [op |-> "fastgpt", args |-> <<Str("cats"), Bool(FALSE)>>]

\* The provider operation that belongs to each provider-backed tool.
OwnOperation ==
    [nm \in {"kagi_search", "kagi_summarize", "kagi_fastgpt", "kagi_enrich"} |->
        CASE nm = "kagi_search"    -> "search"
          [] nm = "kagi_summarize" -> "summarize"
          [] nm = "kagi_fastgpt"   -> "fastgpt"
          [] nm = "kagi_enrich"    -> "enrich"]

\* v if it is a non-empty string, undefined otherwise.
GivenString(v) == IF NonEmptyString(v) THEN v ELSE Undefined

\* The arguments of the provider call of the last step stand in the order of
\* the operation's signature.
InSignatureOrder ==
    CASE last.call.op = "search" ->
           /\ Len(last.call.args) = 2
           /\ last.call.args[1].t = "string"
           /\ ValidQuery => last.call.args[1] = LastArg("query")
           /\ last.call.args[2].t \in {"number", "nan"}
      [] last.call.op = "summarize" ->
           /\ Len(last.call.args) = 6
           /\ last.call.args[1] = GivenString(LastArg("url"))
           /\ last.call.args[2] = GivenString(LastArg("text"))
           /\ last.call.args[3].t = "string"
           /\ NonEmptyString(LastArg("engine")) => last.call.args[3] = LastArg("engine")
           /\ last.call.args[4].t = "string"
           /\ NonEmptyString(LastArg("summary_type"))
                  => last.call.args[4] = LastArg("summary_type")
           /\ last.call.args[5] = GivenString(LastArg("target_language"))
           /\ last.call.args[6].t = "boolean"
      [] last.call.op = "fastgpt" ->
           /\ Len(last.call.args) = 2
           /\ last.call.args[1].t = "string"
           /\ ValidQuery => last.call.args[1] = LastArg("query")
           /\ last.call.args[2].t = "boolean"
      [] last.call.op = "enrich" ->
           /\ Len(last.call.args) = 1
           /\ last.call.args[1].t = "string"
           /\ ValidQuery => last.call.args[1] = LastArg("query")
      [] OTHER -> FALSE

\* C16: an invocation that passes validation calls only the provider operation
\* of its own tool, once, with the arguments in the order of the signature:
\* search(query, limit), summarize(url, text, engine, summary_type,
\* target_language, cache), fastgpt(query, cache), enrich(query); no
\* invocation calls an operation that belongs to another tool.
C16_OwnOperationOnce ==
    /\ (last.op = "callTool" /\ last.call # NoCall) =>
           /\ last.name \in DOMAIN OwnOperation
           /\ last.call.op = OwnOperation[last.name]
           /\ InSignatureOrder
           /\ inv[last.id].calls = 1
    /\ (last.op = "callTool" /\ last.reply.kind = "await") => last.call # NoCall
    /\ last.op \in {"resolve", "reject"} => (last.call = NoCall /\ inv[last.id].calls = 1)
    /\ \A i \in Ids : inv[i].calls <= 1
    /\ callCount = Cardinality({i \in Ids : inv[i].calls = 1})

\* A summarize request with every option set has called summarize, once, with
\* its six arguments in order.
C16_Witness ==
    /\ Called("kagi_summarize")
    /\ inv[last.id].calls = 1
    /\ last.call = [op |-> "summarize",
                    args |-> <<Str("https://example.com"), Undefined, Str("agnes"),
                               Str("takeaway"), Str("es"), Bool(FALSE)>>]

HasField(obj, key) == \E i \in 1 .. Len(obj.k) : obj.k[i] = key

\* obj[key] of a JSON object that has the key.
Field(obj, key) == obj.a[CHOOSE i \in 1 .. Len(obj.k) : obj.k[i] = key]

\* What JSON.parse reads from the text of the reply's content item.
HealthPayloadOf(reply) == Parse(reply.content[1].text)

\* The reply is an envelope of one text item that reads as an object with
\* status "healthy", server_name "kagiserver", server_version "0.2.0" and a
\* timestamp of the clock.
HealthyReply(reply) ==
    /\ reply.kind = "return"
    /\ Len(reply.content) = 1
    /\ \E p \in {HealthPayloadOf(reply)} :
         /\ p.ok
         /\ p.v.t = "obj"
         /\ \A key \in {"status", "server_name", "server_version", "timestamp"} :
                HasField(p.v, Chars(key))
         /\ Field(p.v, Chars("status")) = JStr(Chars("healthy"))
         /\ Field(p.v, Chars("server_name")) = JStr(Chars("kagiserver"))
         /\ Field(p.v, Chars("server_version")) = JStr(Chars("0.2.0"))
         /\ Field(p.v, Chars("timestamp")) \in {JStr(Chars(t)) : t \in Timestamps}

\* C17: health_check always succeeds and never touches the provider: invoked
\* with no arguments or with any arguments, at any point (also after provider
\* failures), it returns an envelope whose payload has status "healthy",
\* server_name "kagiserver", server_version "0.2.0" and a timestamp; it makes
\* no provider call and writes nothing to the diagnostic channel.
C17_HealthCheckSucceeds ==
    [][(last' # last /\ last'.op = "callTool" /\ last'.name = "health_check") =>
           /\ HealthyReply(last'.reply)
           /\ last'.call = NoCall
           /\ inv'[last'.id] = [pc |-> "done", name |-> "", calls |-> 0]
           /\ callCount' = callCount
           /\ errlog' = errlog]_vars

\* The second invocation is a health_check with arguments; the first one
\* called the provider, which failed, and the failure was logged.
C17_Witness ==
    /\ Called("health_check")
    /\ last.id = 2
    /\ LastArg("text") = Str("Some text")
    /\ inv[1].calls = 1
    /\ inv[1].pc = "done"
    /\ Len(errlog) = 1
    /\ HealthyReply(last.reply)

\* The names of the descriptors of a listTools result, in order.
NamesOf(tools) == [i \in 1 .. Len(tools) |-> tools[i].name]

\* The JSON array of the given names.
JNames(names) == JArr([i \in 1 .. Len(names) |-> JStr(Chars(names[i]))])

\* The five catalog names, in catalog order.
FiveNames == <<"kagi_search", "kagi_summarize", "kagi_fastgpt", "kagi_enrich", "health_check">>

\* C18: the health payload agrees with the catalog: available_tools is exactly
\* the ordered list of the names listTools returns, and available_tools_count
\* is the length of that list, which is the number of catalog entries, 5.
C18_HealthAgreesWithCatalog ==
    /\ (Called("health_check") /\ last.reply.kind = "return") =>
         \E p \in {HealthPayloadOf(last.reply)} :
            /\ p.ok
            /\ HasField(p.v, Chars("available_tools"))
            /\ HasField(p.v, Chars("available_tools_count"))
            /\ Field(p.v, Chars("available_tools")) = JNames(NamesOf(Tools))
            /\ Field(p.v, Chars("available_tools_count")) = JNum(Len(Tools))
            /\ Field(p.v, Chars("available_tools_count")).n
                   = Len(Field(p.v, Chars("available_tools")).a)
            /\ Field(p.v, Chars("available_tools_count")) = JNum(5)
    /\ last.op = "listTools" => NamesOf(last.tools) = NamesOf(Tools)

\* health_check has returned a payload that lists five tools.
C18_Witness ==
    /\ Called("health_check")
    /\ last.reply.kind = "return"
    /\ HealthPayloadOf(last.reply).ok
    /\ Field(HealthPayloadOf(last.reply).v, Chars("available_tools")) = JNames(FiveNames)
    /\ Field(HealthPayloadOf(last.reply).v, Chars("available_tools_count")) = JNum(5)

\* C19: listTools takes no input and always succeeds: at any point it returns
\* the same ordered list of five descriptors, whose names are pairwise
\* distinct; it makes no provider call and changes no state.
C19_ListToolsConstant ==
    /\ [](proc = "running" => ENABLED ListTools)
    /\ [][last'.op = "listTools" =>
            /\ last'.tools = Tools
            /\ Len(last'.tools) = 5
            /\ NamesOf(last'.tools) = FiveNames
            /\ \A i, j \in 1 .. Len(last'.tools) :
                   i # j => last'.tools[i].name # last'.tools[j].name
            /\ last'.call = NoCall
            /\ UNCHANGED <<proc, exitCode, inv, callCount, errlog>>]_vars

\* listTools has answered while an invocation is waiting for the provider and
\* after another one's provider failure was logged.
C19_Witness ==
    /\ last.op = "listTools"
    /\ Len(last.tools) = 5
    /\ Len(errlog) = 1
    /\ \E i \in Ids : inv[i].pc = "awaiting"

\* The request of the last CallTool run.
LastRequest == [name |-> last.name, arguments |-> last.arguments]

\* What the handler does with request req on a server that has served nothing
\* before, for some reading of the clock: its provider call and its reply.
FreshOutcomes(req) ==
    {[call |-> d.call, reply |-> Reply(d)] : d \in {Dispatch(req, now) : now \in Timestamps}}

\* C20: invocations are stateless and independent: whatever was invoked
\* before, and whatever else is in flight, what an invocation sends to the
\* provider and what it answers is determined by its own tool name, its own
\* arguments and the provider's response to it; an invocation that failed
\* leaves no error state, so a valid invocation that follows succeeds.
C20_Stateless ==
    [][/\ (last' # last /\ last'.op = "callTool") =>
              /\ [call |-> last'.call, reply |-> last'.reply]
                     \in FreshOutcomes([name |-> last'.name, arguments |-> last'.arguments])
              /\ [name |-> last'.name, arguments |-> last'.arguments] \in ProviderRequests
                     => last'.reply.kind = "await"
              /\ last'.name = "health_check" => last'.reply.kind = "return"
       /\ (last' # last /\ last'.op = "resolve") =>
              /\ inv[last'.id].pc = "awaiting"
              /\ last'.name = inv[last'.id].name
              /\ last'.reply = Reply(Envelope(last'.results))
       /\ (last' # last /\ last'.op = "reject") =>
              /\ inv[last'.id].pc = "awaiting"
              /\ last'.name = inv[last'.id].name
              /\ last'.reply = Reply(Catch(last'.name, last'.error))
       /\ \A i \in Ids : (inv[i].pc # "unstarted" /\ i # last'.id) => inv'[i] = inv[i]]_vars

\* The first invocation failed at the provider; the second, a valid request,
\* called the provider and has returned the envelope of its response.
C20_Witness ==
    /\ last.op = "resolve"
    /\ last.id = 2
    /\ last.reply.kind = "return"
    /\ inv[1] = [pc |-> "done", name |-> "", calls |-> 1]
    /\ Len(errlog) = 1
    /\ errlog[1].label = "KagiAPI error:"

\* The smaller of two integers.
Min(a, b) == IF a <= b THEN a ELSE b

\* The limit of the last request is a number.
NumericLimit == LastArg("limit").t = "number"

\* C21 as stated: for every kagi_search invocation in which a numeric limit L
\* is present, also 0, negative values and values below the schema minimum of
\* 1, the limit passed to the provider is exactly min(L, 10).
C21_MinOfLimitAndTen ==
    (SearchCalled /\ NumericLimit) =>
        last.call.args[2] = Num(Min(LastArg("limit").n, 10))

\* C21, amended: for every kagi_search invocation in which a numeric limit L
\* other than 0 is present, also a negative one, the limit passed to the
\* provider is exactly min(L, 10), and no lower-bound floor is applied; a
\* limit of 0 is treated like a limit left out and reaches the provider as 5.
C21_MinOfNonZeroLimit ==
    (SearchCalled /\ NumericLimit) =>
        /\ LastArg("limit").n # 0 => last.call.args[2] = Num(Min(LastArg("limit").n, 10))
        /\ LastArg("limit").n = 0 => last.call.args[2] = Num(5)

\* A search with the limit -1 has reached the provider with -1.
C21_Witness ==
    /\ SearchCalled
    /\ LastArg("limit") = Num(-1)
    /\ last.call = [op |-> "search", args |-> <<Str("cats"), Num(-1)>>]

\* The entry of property prop in the inputSchema of the catalog's tool nm.
Declared(nm, prop) ==
    LET tool  == Tools[CHOOSE i \in 1 .. Len(Tools) : Tools[i].name = nm]
        props == tool.inputSchema.properties
    IN  props[CHOOSE i \in 1 .. Len(props) : props[i].name = prop]

\* C22: numeric fields are clamped to their declared bounds: in every call
\* kagi_search makes to the provider the limit lies within the bounds the
\* catalog declares for it (minimum 1, maximum 10), for every caller-supplied
\* limit.
C22_LimitWithinDeclaredBounds ==
    SearchCalled =>
        /\ Declared("kagi_search", "limit").minimum = Num(1)
        /\ Declared("kagi_search", "limit").maximum = Num(10)
        /\ last.call.args[2].t = "number"
        /\ last.call.args[2].n >= Declared("kagi_search", "limit").minimum.n
        /\ last.call.args[2].n <= Declared("kagi_search", "limit").maximum.n

\* The four failure prefixes, by tool.
WrappedPrefix ==
    [nm \in DOMAIN OwnOperation |->
        CASE nm = "kagi_search"    -> "Search failed: "
          [] nm = "kagi_summarize" -> "Summarization failed: "
          [] nm = "kagi_fastgpt"   -> "FastGPT query failed: "
          [] nm = "kagi_enrich"    -> "Enrich query failed: "]

\* C23: diagnostic logging is ordered and exclusive to provider failures: when
\* a provider call raises, the raw error is written to the diagnostic channel
\* before the wrapped failure goes back to the caller, exactly once per failed
\* provider call; invocations that succeed or fail validation write nothing to
\* the diagnostic channel; and the response to a logged error holds nothing
\* but the wrapped message.
C23_LoggingOnProviderFailure ==
    [][/\ (last' # last /\ last'.op = "reject") =>
              /\ errlog' = Append(errlog, [label |-> "KagiAPI error:", error |-> last'.error])
              /\ last'.reply = [kind |-> "throw",
                                message |-> WrappedPrefix[last'.name]
                                                \o String(last'.error.message),
                                content |-> <<>>]
              /\ inv'[last'.id].pc = "done"
       /\ (last' # last /\ last'.op \in {"callTool", "resolve", "listTools"}) =>
              errlog' = errlog
       /\ (proc = "running" /\ errlog' # errlog) => last'.op = "reject"]_vars

\* The first invocation ended without a provider call and the second one's
\* provider call failed: the channel holds that one raw error, and the reply
\* is the wrapped failure.
C23_Witness ==
    /\ last.op = "reject"
    /\ last.id = 2
    /\ inv[1] = [pc |-> "done", name |-> "", calls |-> 0]
    /\ errlog = <<[label |-> "KagiAPI error:", error |-> [message |-> Str("API error")]]>>
    /\ last.reply = [kind |-> "throw", message |-> "Enrich query failed: API error",
                     content |-> <<>>]

\* The values the catalog declares for an enum property of kagi_summarize.
DeclaredEnum(prop) ==
    LET enum == Declared("kagi_summarize", prop).enum
    IN  {enum[i] : i \in 1 .. Len(enum)}

\* The value of option f of the last request is a non-empty string that is not
\* one of the declared enum values.
OutsideEnum(f) == NonEmptyString(LastArg(f)) /\ LastArg(f).s \notin DeclaredEnum(f)

\* Exactly one of url and text of the last request is a non-empty value.
ExactlyOneSource == Supplied("url") # Supplied("text")

\* C24: enum pass-through: kagi_summarize invoked with exactly one of url and
\* text and an engine or summary_type that is a non-empty string outside the
\* declared enum is not rejected; the provider is called with that value
\* unchanged.
C24_EnumPassThrough ==
    (Called("kagi_summarize") /\ ExactlyOneSource) =>
        /\ DeclaredEnum("engine") = {"cecil", "agnes", "daphne", "muriel"}
        /\ DeclaredEnum("summary_type") = {"summary", "takeaway"}
        /\ OutsideEnum("engine") =>
               /\ last.reply.kind = "await"
               /\ last.call.op = "summarize"
               /\ last.call.args[3] = LastArg("engine")
        /\ OutsideEnum("summary_type") =>
               /\ last.reply.kind = "await"
               /\ last.call.op = "summarize"
               /\ last.call.args[4] = LastArg("summary_type")

\* A summarize request with the engine "bogus" has reached the provider.
C24_Witness ==
    /\ Called("kagi_summarize")
    /\ ExactlyOneSource
    /\ OutsideEnum("engine")
    /\ last.call.op = "summarize"
    /\ last.call.args[3] = Str("bogus")

\* Some invocation other than id has called the provider.
OtherInFlight(id) == \E j \in Ids : j # id /\ inv[j].calls = 1

\* C25: concurrent invocations do not interfere: when two or more invocations
\* are in flight at once, each suspended in its provider call, and the calls
\* settle in any order, each invocation returns the envelope or the failure
\* built from the outcome of its own provider call and the prefix of its own
\* tool, never from another invocation's.
C25_NoInterference ==
    [][(last' # last /\ last'.op \in {"resolve", "reject"} /\ OtherInFlight(last'.id)) =>
           /\ inv[last'.id].pc = "awaiting"
           /\ last'.name = inv[last'.id].name
           /\ last'.op = "resolve" =>
                  last'.reply = [kind |-> "return", message |-> "",
                                 content |-> <<[type |-> "text",
                                                text |-> Stringify(last'.results)]>>]
           /\ last'.op = "reject" =>
                  last'.reply = [kind |-> "throw",
                                 message |-> WrappedPrefix[inv[last'.id].name]
                                                 \o String(last'.error.message),
                                 content |-> <<>>]
           /\ \A j \in Ids : j # last'.id => inv'[j] = inv[j]]_vars

\* The first invocation, of kagi_search, fails at the provider while the
\* second, of another tool, is still suspended in its own provider call.
C25_Witness ==
    /\ last.op = "reject"
    /\ last.id = 1
    /\ last.name = "kagi_search"
    /\ last.reply.message = "Search failed: API error"
    /\ inv[2].pc = "awaiting"
    /\ inv[2].name = "kagi_fastgpt"

\* The messages of a ProviderFailure: a tool's prefix and the provider's message.
ProviderFailureMessages ==
    {WrappedPrefix[nm] \o String(e.message) : nm \in DOMAIN WrappedPrefix, e \in Errors}

\* C26: every callTool invocation ends in exactly one outcome, an envelope or
\* one error of the taxonomy: an invocation that fails validation, names an
\* unknown tool or calls health_check completes without waiting on the
\* provider, and an invocation that reaches the provider completes as soon as
\* its provider call settles, which it does if the call settles at all.
C26_OneOutcome ==
    /\ [][/\ (last' # last /\ last'.op = "callTool") =>
                 /\ inv[last'.id].pc = "unstarted"
                 /\ last'.reply.kind \in {"return", "throw", "await"}
                 /\ last'.reply.kind = "await" <=> inv'[last'.id].pc = "awaiting"
                 /\ last'.reply.kind # "await" => inv'[last'.id].pc = "done"
                 /\ last'.reply.kind = "await" => last'.name \in DOMAIN OwnOperation
                 /\ last'.reply.kind = "throw" =>
                        (last'.reply.message \in ValidationMessages /\ last'.call = NoCall)
                 /\ last'.reply.kind = "return" => last'.name = "health_check"
          /\ (last' # last /\ last'.op \in {"resolve", "reject"}) =>
                 /\ inv[last'.id].pc = "awaiting"
                 /\ inv'[last'.id].pc = "done"
                 /\ last'.op = "resolve" => last'.reply.kind = "return"
                 /\ last'.op = "reject" =>
                        (last'.reply.kind = "throw"
                         /\ last'.reply.message \in ProviderFailureMessages)
          /\ \A i \in Ids : inv[i].pc = "done" => inv'[i] = inv[i]]_vars
    /\ \A i \in Ids : (inv[i].pc = "awaiting") ~> (inv[i].pc = "done")

\* Both invocations reached the provider and both have completed, one with a
\* failure and then one with an envelope.
C26_Witness ==
    /\ \A i \in Ids : inv[i] = [pc |-> "done", name |-> "", calls |-> 1]
    /\ Len(errlog) = 1
    /\ last.op = "resolve"
    /\ last.reply.kind = "return"

\* C27: start-up failure handling: if connecting the server to the transport
\* fails in main, the error is reported on the diagnostic channel and the
\* process terminates with exit status 1; no list or call request is served
\* after a failed start-up.
C27_StartupFailureExits ==
    /\ proc \in {"starting", "running"} => exitCode = -1
    /\ (errlog # <<>> /\ errlog[1].label = "Server error:") => proc = "exited"
    /\ proc = "exited" =>
           /\ exitCode = 1
           /\ Len(errlog) = 1
           /\ errlog[1].label = "Server error:"
           /\ errlog[1].error \in Errors
           /\ last = Idle
           /\ \A i \in Ids : inv[i].pc = "unstarted"
           /\ callCount = 0
           /\ ~ENABLED ListTools
           /\ \A req \in Requests, now \in Timestamps : ~ENABLED CallTool(req, now)
           /\ ~ENABLED Next

\* The connection failed with the error "API error": it is on the diagnostic
\* channel and the process has exited with status 1.
C27_Witness ==
    /\ proc = "exited"
    /\ exitCode = 1
    /\ errlog = <<[label |-> "Server error:", error |-> [message |-> Str("API error")]]>>

\* The names of the descriptors listTools returns.
ListedNames == {Tools[i].name : i \in 1 .. Len(Tools)}

\* C28: the catalog and the dispatcher agree on the tool set: callTool accepts
\* a tool name (does not end in "Unknown tool") if and only if it is the name
\* of a descriptor that listTools returns.
C28_CatalogMatchesDispatcher ==
    /\ last.op = "callTool" => (last.name \in ListedNames <=> ~Failed("Unknown tool"))
    /\ last.op = "callTool" =>
           (last.name \in ListedNames <=> last.reply.message # "Unknown tool")
    /\ last.op = "listTools" => {last.tools[i].name : i \in 1 .. Len(last.tools)} = ListedNames

\* callTool has accepted health_check, the last name of the catalog, from a
\* request with arguments it does not declare.
C28_Witness ==
    /\ Called("health_check")
    /\ last.name \in ListedNames
    /\ LastArg("limit") = Num(50)
    /\ last.reply.kind = "return"

\* The value is left out or is the empty string.
AbsentOrEmpty(v) == v \in {Undefined, Str("")}

\* C29: in kagi_summarize an empty-string url or text counts as absent: url ""
\* with a non-empty text (or the reverse) is accepted and reaches the provider
\* with only the non-empty one; url "" with text absent or empty (or the
\* reverse) fails with "Either url or text is required"; and an empty engine,
\* summary_type or target_language is replaced by its default or left absent.
C29_EmptyCountsAsAbsent ==
    Called("kagi_summarize") =>
        /\ (LastArg("url") = Str("") /\ NonEmptyString(LastArg("text"))) =>
               /\ last.call.op = "summarize"
               /\ last.call.args[1] = Undefined
               /\ last.call.args[2] = LastArg("text")
        /\ (LastArg("text") = Str("") /\ NonEmptyString(LastArg("url"))) =>
               /\ last.call.op = "summarize"
               /\ last.call.args[1] = LastArg("url")
               /\ last.call.args[2] = Undefined
        /\ \/ LastArg("url") = Str("") /\ AbsentOrEmpty(LastArg("text"))
           \/ LastArg("text") = Str("") /\ AbsentOrEmpty(LastArg("url"))
           => (Failed("Either url or text is required") /\ last.call = NoCall)
        /\ last.call # NoCall =>
               /\ LastArg("engine") = Str("") => last.call.args[3] = Str("cecil")
               /\ LastArg("summary_type") = Str("") => last.call.args[4] = Str("summary")
               /\ LastArg("target_language") = Str("") => last.call.args[5] = Undefined

\* A summarize request with url "", a text and empty engine, summary_type and
\* target_language has reached the provider with the text and the defaults.
C29_Witness ==
    /\ Called("kagi_summarize")
    /\ LastArg("url") = Str("")
    /\ LastArg("engine") = Str("")
    /\ LastArg("summary_type") = Str("")
    /\ LastArg("target_language") = Str("")
    /\ last.call = [op |-> "summarize",
                    args |-> <<Undefined, Str("Some text"), Str("cecil"), Str("summary"),
                               Undefined, Bool(TRUE)>>]

\* C30: the two versions of the server, index.ts with five tools and part_001
\* with four, are equivalent on the four provider-backed tools: for each of
\* kagi_search, kagi_summarize, kagi_fastgpt and kagi_enrich, every argument
\* mapping and every provider outcome, both make the same provider call and
\* return the same envelope or error; they differ only in that part_001 lists
\* four tools and answers health_check with "Unknown tool".
C30_VersionsEquivalent ==
    /\ (last.op = "callTool" /\ last.name # "health_check") =>
           /\ last.call = TemplateDispatch(LastRequest).call
           /\ last.reply = Reply(TemplateDispatch(LastRequest))
    /\ Called("health_check") =>
           /\ last.reply.kind = "return"
           /\ Reply(TemplateDispatch(LastRequest))
                  = [kind |-> "throw", message |-> "Unknown tool", content |-> <<>>]
    /\ last.op = "resolve" =>
           /\ last.name \in DOMAIN OwnOperation
           /\ last.reply = Reply(TemplateEnvelope(last.results))
    /\ last.op = "reject" =>
           /\ last.name \in DOMAIN OwnOperation
           /\ last.reply = Reply(TemplateCatch(last.name, last.error).throw)
           /\ errlog[Len(errlog)] = TemplateCatch(last.name, last.error).log
    /\ last.op = "listTools" =>
           /\ TemplateTools = SubSeq(last.tools, 1, 4)
           /\ Len(last.tools) = Len(TemplateTools) + 1
           /\ last.tools[5].name = "health_check"

\* A fastgpt request with cache "false" has made the provider call that
\* part_001 makes for it.
C30_Witness ==
    /\ Called("kagi_fastgpt")
    /\ LastArg("cache") = Str("false")
    /\ last.call = [op |-> "fastgpt", args |-> <<Str("cats"), Bool(TRUE)>>]
    /\ last.call = TemplateDispatch(LastRequest).call
====
